---- MODULE Spec2Model ----
(***************************************************************************)
(* Shared stream engine of the SSE test server (server.js): the periodic   *)
(* stream /sse/test, its per-stream generator interval, the per-connection *)
(* live tail, the inactivity cleanup loop and the administrative delete.   *)
(*                                                                         *)
(* Node runs every callback to completion on one thread, so each handler   *)
(* or timer callback is one atomic action.  Of the clock only the time     *)
(* since a state's lastActivity is kept, in units of five minutes.         *)
(***************************************************************************)
EXTENDS Integers, Sequences, FiniteSets, TLC

(* ------------------------------ bounds -------------------------------- *)

\* Largest event id the generators are allowed to assign.
MaxId == 3

\* Number of StreamState objects alive at once (registered, or unregistered
\* and still held by the closure of an open connection).
MaxStates == 2

\* Number of simultaneously open connections.
MaxConns == 2

\* Stand-in for the history limit 2000 of generateEvent, scaled down so
\* that eviction happens within MaxId events.
HistoryCap == 2

\* INACTIVITY_TIMEOUT_MS, with the clock counting units of five minutes.
INACTIVITY_TIMEOUT == 1

\* Number of simultaneously open /sse/stream-file connections.
MaxFileConns == 2

\* Number of chunks a fresh /sse/stream-file connection emits before its
\* end message (totalBytes / chunk length).
MaxFileChunks == 2

\* Largest id a /sse/stream-file connection is allowed to give a chunk.
MaxChunkId == 4

\* Stand-in for the limit 500 of the chunk store.
ChunkStoreCap == 3

\* Number of expiration timeouts pending at once.
MaxTimeouts == 2

StreamIds == {"default"}
Conns == 1..MaxConns
Slots == 1..MaxStates

\* maxEvents = Infinity: larger than every reachable eventCount.
Infinity == MaxId + 1

\* The request parameters tried: maxEvents, interval, eventType ("none" =
\* not given), errorAfter (0 = no error) and the Last-Event-ID header
\* (0 = not sent, MaxId + 1 = an id never issued).
MaxEventsChoices == {2, Infinity}
IntervalChoices == {10, 2000}
EventTypeChoices == {"none", "update"}
ErrorAfterChoices == {0, HistoryCap + 1}
LastEventIdChoices == 0..(MaxId + 1)

\* res of a generator closure whose request is closed: res.end() is a no-op.
NoRes == 0

FileConns == 1..MaxFileConns

\* The request parameters of /sse/stream-file tried: totalBytes, chunkSize
\* (format text, so a chunk is chunkSize characters and a newline) and the
\* Last-Event-ID header (0 = not sent).
TotalBytesChoices == {2 * MaxFileChunks}
ChunkSizeChoices == {1}
FileLastEventIdChoices == 0..MaxChunkId

VARIABLES
    streams,    \* the Map streams: streamId -> slot of its state, 0 = absent
    states,     \* the StreamState objects (the heap), by slot; idle stands
                \* for Date.now() - lastActivity
    timers,     \* the scheduled generator intervals (setInterval handles)
    conns,      \* the open /sse/test requests: closure variables and the
                \* messages written to the response
    reply,      \* what the step just taken answered to DELETE
                \* /sse/stream/:streamId (NoReply if it was another step)
    eventStore, \* the Map eventStore of /sse/stream-file: streamId -> the
                \* array of stored chunks, if the id has one
    storeExpirations,   \* the Map storeExpirations: streamId -> handle of
                \* the expiration timeout on record, 0 = no entry
    timeouts,   \* the pending expiration timeouts (setTimeout handles)
    fileConns   \* the open /sse/stream-file requests: closure variables
                \* and the messages written to the response

\* The part of the state the chunked variant works on.
fileVars == <<eventStore, storeExpirations, timeouts, fileConns>>

vars == <<streams, states, timers, conns, reply, eventStore, storeExpirations, timeouts, fileConns>>

(* ------------------------------ helpers ------------------------------- *)

\* Array.prototype.findIndex((e) => e.id === id): 0-based, -1 if absent.
FindIndex(events, id) ==
    LET hits == {i \in 1..Len(events) : events[i].id = id}
    IN  IF hits = {} THEN -1
        ELSE (CHOOSE i \in hits : \A j \in hits : i <= j) - 1

\* filter with e.id >= lastSentId: the last Event sent is sent again.
RECURSIVE NewEventsInclusive(_, _)
NewEventsInclusive(events, lastSentId) ==
    IF events = <<>> THEN <<>>
    ELSE IF Head(events).id >= lastSentId
         THEN <<Head(events)>> \o NewEventsInclusive(Tail(events), lastSentId)
         ELSE NewEventsInclusive(Tail(events), lastSentId)

\* Array.prototype.filter((e) => e.id > lastSentId)
RECURSIVE NewEvents(_, _)
NewEvents(events, lastSentId) ==
    IF events = <<>> THEN <<>>
    ELSE IF Head(events).id > lastSentId
         THEN <<Head(events)>> \o NewEvents(Tail(events), lastSentId)
         ELSE NewEvents(Tail(events), lastSentId)

\* sendEvent(res, data, {id, event}): the id line is written only when the
\* id is truthy (0 = none), the event line only when a type is given
\* ("none" = undefined).  retry is wire-only and not modelled.
SendEvent(log, data, id, event) ==
    Append(log, [id |-> id, event |-> event, data |-> data])

\* Sending that leaves out the event line of every Event.
RECURSIVE SendAllUntyped(_, _)
SendAllUntyped(log, events) ==
    IF events = <<>> THEN log
    ELSE SendAllUntyped(SendEvent(log, Head(events).data, Head(events).id,
                                  "none"),
                        Tail(events))

\* sendEvent for each of the events in order, as in the replay loop and in
\* newEvents.forEach.
RECURSIVE SendAll(_, _)
SendAll(log, events) ==
    IF events = <<>> THEN log
    ELSE SendAll(SendEvent(log, Head(events).data, Head(events).id,
                           Head(events).event),
                 Tail(events))

TestData(eventCount) == [message |-> "Test event", n |-> eventCount]
ErrorData == [message |-> "Simulated server error", n |-> 0]
ConnectedData == [message |-> "Connected to live stream", n |-> 0]
NotFoundData == [message |-> "Last-Event-ID not found - starting live", n |-> 0]
ResumedData(lastEventId) == [message |-> "Resumed from ID", n |-> lastEventId]

\* A new state whose numbering goes on from an earlier Event.
NewStateNumberedOn(requestedMax, intervalMs) ==
    [events |-> <<>>, timer |-> 0, idle |-> 0, eventCount |-> 1,
     lastId |-> 1, maxEvents |-> requestedMax, intervalMs |-> intervalMs,
     appended |-> <<>>]

\* The StreamState object created for an id the registry does not hold.
\* appended is not a field of the code: it records every Event ever pushed
\* to events, the evicted ones included.
NewState(requestedMax, intervalMs) ==
    [events |-> <<>>, timer |-> 0, idle |-> 0, eventCount |-> 0,
     lastId |-> 0, maxEvents |-> requestedMax, intervalMs |-> intervalMs,
     appended |-> <<>>]

\* A slot of the heap that holds no object.
FreeState ==
    [events |-> <<>>, timer |-> 0, idle |-> 0, eventCount |-> 0,
     lastId |-> 0, maxEvents |-> 0, intervalMs |-> 0, appended |-> <<>>]

\* warned: the request logged a [Mismatch] warning.
\* mode and attachLastId record how the request attached ("fresh", "found",
\* "notfound") and state.lastId at that moment.
FreeConn ==
    [st |-> 0, streamId |-> "default", lastSentId |-> 0, live |-> FALSE,
     ended |-> FALSE, log |-> <<>>, warned |-> FALSE, mode |-> "free",
     attachLastId |-> 0]

\* No DELETE request was answered by the step.
NoReply == [status |-> 0, wasActive |-> FALSE, eventCount |-> 0, lastId |-> 0]

\* The slots some reference still reaches: the registry, the closure of an
\* open connection, the closure of a scheduled interval.
Reachable(strs, cs, ts) ==
    {strs[id] : id \in StreamIds} \cup {cs[c].st : c \in Conns}
        \cup {t.st : t \in ts}

\* What is left of a state once it is out of the registry: no interval
\* runs on it and no request can get it any more, so only the tails whose
\* closure holds it still read it, and they read events and lastId.
Unregistered(state) ==
    [FreeState EXCEPT !.events = state.events, !.lastId = state.lastId,
                      !.appended = state.appended]

\* Garbage collection: an object nothing reaches is gone, and of an
\* unregistered one only the fields that are still read are kept.
Collect(sts, strs, cs, ts) ==
    [s \in Slots |->
        IF s \in {strs[id] : id \in StreamIds} \cup {t.st : t \in ts}
        THEN sts[s]
        ELSE IF s \in Reachable(strs, cs, ts) THEN Unregistered(sts[s])
        ELSE FreeState]

\* eventStore has no entry for the id.
NoStore == [has |-> FALSE, stored |-> <<>>]

\* running: the chunk interval of the request is scheduled.
\* detached: the array the closure holds in stored is no longer the one in
\* eventStore (the entry was deleted since the request attached); what is
\* pushed to it is read by nobody.
FreeFileConn ==
    [open |-> FALSE, streamId |-> "default", totalBytes |-> 0, chunkSize |-> 0,
     byteSent |-> 0, chunkIndex |-> 0, lastId |-> 0, running |-> FALSE,
     ended |-> FALSE, detached |-> FALSE, log |-> <<>>]

Init ==
    /\ streams = [id \in StreamIds |-> 0]
    /\ states = [s \in Slots |-> FreeState]
    /\ timers = {}
    /\ conns = [c \in Conns |-> FreeConn]
    /\ reply = NoReply
    /\ eventStore = [id \in StreamIds |-> NoStore]
    /\ storeExpirations = [id \in StreamIds |-> 0]
    /\ timeouts = {}
    /\ fileConns = [c \in FileConns |-> FreeFileConn]

(* ------------------------------ actions ------------------------------- *)

\* A clearInterval that leaves the interval scheduled.
ClearIntervalLeaking(ts, h) == ts

\* clearInterval(handle): handle 0 is null and clears nothing.
ClearInterval(ts, h) == {t \in ts : t.h # h}

\* A handle no scheduled interval holds.
FreshHandle ==
    CHOOSE h \in 1..(Cardinality(timers) + 1) : \A t \in timers : t.h # h

\* The stored state re-locked to the values of the later request.
GetStateRelocked(s, requestedMax, intervalMs) ==
    [states[s] EXCEPT !.maxEvents = requestedMax, !.intervalMs = intervalMs]

\* The else branch of get-or-create: the stored state is used as it is,
\* a differing requestedMax is only logged.
GetState(s, requestedMax, intervalMs) == states[s]

\* if (requestedMax !== Infinity && requestedMax !== state.maxEvents): the
\* request asks for another limit than the locked one and is warned.
Mismatch(state, requestedMax) ==
    requestedMax # Infinity /\ requestedMax # state.maxEvents

\* The start condition without the !state.timer test.
ShouldStartGeneratorPerRequest(state) == state.eventCount < state.maxEvents

\* if (!state.timer && state.eventCount < state.maxEvents)
ShouldStartGenerator(state) ==
    state.timer = 0 /\ state.eventCount < state.maxEvents

\* The resumption handshake: the messages written and the cursor lastSentId
\* the live tail starts from.
Handshake(events, lastEventId) ==
    IF lastEventId > 0
    THEN LET startIndex == FindIndex(events, lastEventId) + 1
         IN  IF startIndex > 0
             THEN LET missed == SubSeq(events, startIndex + 1, Len(events))
                      last == IF missed = <<>> THEN lastEventId
                              ELSE missed[Len(missed)].id
                  IN  [log |-> SendEvent(SendAll(<<>>, missed),
                                         ResumedData(lastEventId),
                                         last + 1, "none"),
                       lastSentId |-> last + 1]
             ELSE [log |-> SendEvent(<<>>, NotFoundData, 0, "none"),
                   lastSentId |-> -1]
    ELSE [log |-> SendEvent(<<>>, ConnectedData, 0, "none"),
          lastSentId |-> 0]

\* How the handshake went, from the header and the buffer.
Mode(events, lastEventId) ==
    IF lastEventId = 0 THEN "fresh"
    ELSE IF FindIndex(events, lastEventId) >= 0 THEN "found" ELSE "notfound"

\* GET /sse/test: get or create the state, touch lastActivity, start the
\* generator if none is scheduled and the stream is not finished, perform
\* the handshake and schedule the live tail.
Connect(c, streamId, requestedMax, intervalMs, eventType, errorAfterNum, lastEventId) ==
    /\ conns[c].st = 0
    /\ streams[streamId] = 0 => Slots \ Reachable(streams, conns, timers) # {}
    /\ LET isNew == streams[streamId] = 0
           free == Slots \ Reachable(streams, conns, timers)
           s == IF isNew THEN CHOOSE x \in free : \A y \in free : x <= y
                ELSE streams[streamId]
           st0 == IF isNew THEN NewState(requestedMax, intervalMs)
                  ELSE GetState(s, requestedMax, intervalMs)
           st1 == [st0 EXCEPT !.idle = 0]
           start == ShouldStartGenerator(st1)
           h == FreshHandle
           st2 == IF start THEN [st1 EXCEPT !.timer = h] ELSE st1
           hs == Handshake(st2.events, lastEventId)
       IN  /\ streams' = [streams EXCEPT ![streamId] = s]
           /\ states' = [states EXCEPT ![s] = st2]
           /\ timers' = IF start
                        THEN timers \cup
                             {[h |-> h, st |-> s, streamId |-> streamId,
                               res |-> c, errorAfterNum |-> errorAfterNum,
                               eventType |-> eventType,
                               period |-> st2.intervalMs]}
                        ELSE timers
           /\ conns' = [conns EXCEPT ![c] =
                           [st |-> s, streamId |-> streamId,
                            lastSentId |-> hs.lastSentId,
                            live |-> TRUE, ended |-> FALSE, log |-> hs.log,
                            warned |-> ~isNew /\ Mismatch(st0, requestedMax),
                            mode |-> Mode(st2.events, lastEventId),
                            attachLastId |-> st2.lastId]]
    /\ reply' = NoReply
    /\ UNCHANGED fileVars

\* res.end() of a generator closure: ends the response of the request that
\* started the generator, if that request is still open.
EndRes(cs, res) ==
    IF res = NoRes THEN cs ELSE [cs EXCEPT ![res].ended = TRUE]

\* Eviction of the newest Event instead of the oldest.
TrimHistoryNewest(events) ==
    IF Len(events) > HistoryCap THEN SubSeq(events, 1, Len(events) - 1)
    ELSE events

\* if (state.events.length > 2000) state.events.shift()
TrimHistory(events) ==
    IF Len(events) > HistoryCap THEN Tail(events) ELSE events

\* generateEvent(): the state after the call.  The error branch clears the
\* timer and returns before the history is trimmed.
GenerateEvent(state, errorAfterNum, eventType) ==
    LET eventCount == state.eventCount + 1
        lastId == state.lastId + 1
        errorEvent == [id |-> lastId, data |-> ErrorData, event |-> "error"]
        event == [id |-> lastId, data |-> TestData(eventCount),
                  event |-> eventType]
    IN  IF errorAfterNum > 0 /\ eventCount = errorAfterNum
        THEN [state EXCEPT !.eventCount = eventCount, !.lastId = lastId,
                           !.timer = 0,
                           !.events = Append(state.events, errorEvent),
                           !.appended = Append(state.appended, errorEvent)]
        ELSE [state EXCEPT !.eventCount = eventCount, !.lastId = lastId,
                           !.events = TrimHistory(Append(state.events, event)),
                           !.appended = Append(state.appended, event)]

\* The limit test with > in place of >=.
FinishedLate(state) == state.eventCount > state.maxEvents

\* if (state.eventCount >= state.maxEvents): the stream is finished.
Finished(state) == state.eventCount >= state.maxEvents

\* The terminal branch of the generator interval t: stop the interval held
\* in state.timer, end the starting request's response, delete the
\* registry entry of the stream id and the storeExpirations entry of the
\* same id.
Terminate(t) ==
    LET strs == [streams EXCEPT ![t.streamId] = 0]
        cs == EndRes(conns, t.res)
        ts == ClearInterval(timers, states[t.st].timer)
    IN  /\ timers' = ts
        /\ conns' = cs
        /\ streams' = strs
        /\ states' = Collect([states EXCEPT ![t.st].timer = 0], strs, cs, ts)
        /\ storeExpirations' = [storeExpirations EXCEPT ![t.streamId] = 0]

\* One firing of the generator interval t.
GeneratorTick(t) ==
    /\ LET state == states[t.st]
       IN  IF Finished(state)
           THEN Terminate(t)
           ELSE /\ state.lastId < MaxId
                /\ LET after == GenerateEvent(state, t.errorAfterNum,
                                              t.eventType)
                   IN  /\ states' = [states EXCEPT ![t.st] = after]
                       /\ timers' = IF after.timer = 0
                                    THEN ClearInterval(timers, state.timer)
                                    ELSE timers
                /\ UNCHANGED <<streams, conns, storeExpirations>>
    /\ reply' = NoReply
    /\ UNCHANGED <<eventStore, timeouts, fileConns>>

\* One firing of the live tail of connection c.  Writes to a response that
\* the generator's res.end() has ended reach nobody (Node reports them as
\* write-after-end errors); the cursor moves all the same.
LiveTail(c) ==
    /\ conns[c].live
    /\ LET state == states[conns[c].st]
           newEvents == NewEvents(state.events, conns[c].lastSentId)
       IN  /\ conns[c].lastSentId < state.lastId
           /\ newEvents # <<>>
           /\ conns' = [conns EXCEPT
                  ![c].log = IF conns[c].ended THEN @
                             ELSE SendAll(@, newEvents),
                  ![c].lastSentId = newEvents[Len(newEvents)].id]
    /\ UNCHANGED <<streams, states, timers>>
    /\ reply' = NoReply
    /\ UNCHANGED fileVars

\* A close handler that also drops the generator handle of the state.
TouchOnCloseStopping(state) == [state EXCEPT !.idle = 0, !.timer = 0]

\* streams.get(streamId).lastActivity = Date.now() in the close handler.
TouchOnClose(state) == [state EXCEPT !.idle = 0]

\* req.on('close'): stop this connection's tail, end the response, touch
\* the state registered under the stream id.  The request is gone
\* afterwards: its slot is free and a generator closure holding its res
\* can no longer end anything.
Disconnect(c) ==
    /\ conns[c].st # 0
    /\ LET cs == [conns EXCEPT ![c] = FreeConn]
           ts == {IF t.res = c THEN [t EXCEPT !.res = NoRes] ELSE t :
                    t \in timers}
           touched == IF streams[conns[c].streamId] # 0
                      THEN [states EXCEPT ![streams[conns[c].streamId]] =
                               TouchOnClose(@)]
                      ELSE states
       IN  /\ conns' = cs
           /\ timers' = ts
           /\ states' = Collect(touched, streams, cs, ts)
    /\ UNCHANGED streams
    /\ reply' = NoReply
    /\ UNCHANGED fileVars

\* A threshold the idle time never passes.
ExpiredLate(state) == state.idle > INACTIVITY_TIMEOUT + 1

\* now - state.lastActivity > INACTIVITY_TIMEOUT_MS
Expired(state) == state.idle > INACTIVITY_TIMEOUT

\* One run of the cleanup loop over the whole registry.
Cleanup ==
    LET gone == {id \in StreamIds :
                    streams[id] # 0 /\ Expired(states[streams[id]])}
        idx == {streams[id] : id \in gone}
        strs == [id \in StreamIds |-> IF id \in gone THEN 0 ELSE streams[id]]
        ts == {t \in timers : \A s \in idx : t.h # states[s].timer}
    IN  /\ gone # {}
        /\ timers' = ts
        /\ streams' = strs
        /\ states' = Collect([s \in Slots |->
                                 IF s \in idx
                                 THEN [states[s] EXCEPT !.timer = 0]
                                 ELSE states[s]],
                             strs, conns, ts)
        /\ UNCHANGED conns
        /\ reply' = NoReply
        /\ UNCHANGED fileVars

\* res.status(404).json({error}) for an id the registry does not hold.
NotFoundReply ==
    [status |-> 404, wasActive |-> FALSE, eventCount |-> 0, lastId |-> 0]

\* res.status(200).json({wasActive: !!state.timer, eventCount, lastId}):
\* read from the state object at the end of the handler, that is after
\* state.timer = null.
DeleteReply(state) ==
    [status |-> 200, wasActive |-> state.timer # 0,
     eventCount |-> state.eventCount, lastId |-> state.lastId]

\* DELETE /sse/stream/:streamId: 404 for an id the registry does not hold;
\* otherwise stop the generator, delete the registry entry and report.
AdminDelete(streamId) ==
    IF streams[streamId] = 0
    THEN /\ reply' = NotFoundReply
         /\ UNCHANGED <<streams, states, timers, conns>>
         /\ UNCHANGED fileVars
    ELSE LET s == streams[streamId]
             stopped == [states[s] EXCEPT !.timer = 0]
             strs == [streams EXCEPT ![streamId] = 0]
             ts == ClearInterval(timers, states[s].timer)
         IN  /\ timers' = ts
             /\ streams' = strs
             /\ states' = Collect([states EXCEPT ![s] = stopped],
                                  strs, conns, ts)
             /\ reply' = DeleteReply(stopped)
             /\ UNCHANGED conns
             /\ UNCHANGED fileVars

\* Time passes: one more unit since the last activity of every registered
\* state.  Beyond the timeout the exact idle time no longer matters.
Tick ==
    /\ \E id \in StreamIds :
          streams[id] # 0 /\ states[streams[id]].idle <= INACTIVITY_TIMEOUT
    /\ states' = [s \in Slots |->
                    IF /\ \E id \in StreamIds : streams[id] = s
                       /\ states[s].idle <= INACTIVITY_TIMEOUT
                    THEN [states[s] EXCEPT !.idle = @ + 1]
                    ELSE states[s]]
    /\ UNCHANGED <<streams, timers, conns>>
    /\ reply' = NoReply
    /\ UNCHANGED fileVars

\* What the environment and the timers do besides opening requests.
Others ==
    \/ \E t \in timers : GeneratorTick(t)
    \/ \E c \in Conns : LiveTail(c)
    \/ \E c \in Conns : Disconnect(c)
    \/ Cleanup
    \/ \E streamId \in StreamIds : AdminDelete(streamId)
    \/ Tick

\* Requests with the default interval and no eventType; maxEvents is given
\* by the request that creates the stream and left out by later ones.
Next ==
    \/ \E c \in Conns, streamId \in StreamIds,
          errorAfterNum \in ErrorAfterChoices,
          lastEventId \in LastEventIdChoices :
          \E requestedMax \in (IF streams[streamId] = 0 THEN MaxEventsChoices
                               ELSE {Infinity}) :
             Connect(c, streamId, requestedMax, 2000, "none", errorAfterNum,
                     lastEventId)
    \/ Others

Spec == Init /\ [][Next]_vars

\* Requests that differ in maxEvents, interval and eventType, also on a
\* stream that exists; no error injection and no Last-Event-ID.
NextParams ==
    \/ \E c \in Conns, streamId \in StreamIds,
          requestedMax \in MaxEventsChoices, intervalMs \in IntervalChoices,
          eventType \in EventTypeChoices :
          Connect(c, streamId, requestedMax, intervalMs, eventType, 0, 0)
    \/ Others

SpecParams == Init /\ [][NextParams]_vars

\* setInterval keeps firing a scheduled generator.
FairSpec == Spec /\ WF_vars(\E t \in timers : GeneratorTick(t))

\* The clock advances and the cleanup interval keeps firing.
FairSweepSpec == Spec /\ WF_vars(Tick) /\ WF_vars(Cleanup)

(* ------------------------- the chunked variant ------------------------- *)

ChunkData(chunkIndex) == [message |-> "chunk", n |-> chunkIndex]
StartingData == [message |-> "Starting simulated file stream", n |-> 0]
ResumeData(chunkIndex) ==
    [message |-> "Resume simulated file chunk from chunk", n |-> chunkIndex]
EndData == [message |-> "end", n |-> 0]

\* chunkData.length for format text: 'x'.repeat(chunkSizeNum) + '\n'
ChunkLength(chunkSize) == chunkSize + 1

\* sendEvent(res, stored[i].data, {id: stored[i].id, event: eventType}) for
\* each of the stored chunks in order.
RECURSIVE SendStored(_, _)
SendStored(log, chunks) ==
    IF chunks = <<>> THEN log
    ELSE SendStored(SendEvent(log, Head(chunks).data, Head(chunks).id,
                              "chunk"),
                    Tail(chunks))

\* clearTimeout(handle)
ClearTimeout(ts, h) == {t \in ts : t.h # h}

\* setStoreExpiration(streamId): clear the timeout on record for the id, if
\* there is one, arm a new timeout and put it on record.
SetStoreExpiration(exps, ts, streamId) ==
    LET cleared == IF exps[streamId] # 0 THEN ClearTimeout(ts, exps[streamId])
                   ELSE ts
        h == CHOOSE x \in 1..(Cardinality(cleared) + 1) :
                 \A t \in cleared : t.h # x
    IN  [storeExpirations |-> [exps EXCEPT ![streamId] = h],
         timeouts |-> cleared \cup {[h |-> h, streamId |-> streamId]}]

\* The handshake of /sse/stream-file: the messages written and the
\* counters byteSent, chunkIndex and lastId the chunk interval starts from.
\* The replay loop starts at resumeIndex, the position of the last-seen
\* chunk itself, and runs only if resumeIndex > 0.
FileHandshake(stored, lastEventId, chunkSize) ==
    IF lastEventId > 0
    THEN LET resumeIndex == FindIndex(stored, lastEventId)
         IN  IF resumeIndex > 0
             THEN [log |-> SendEvent(
                              SendStored(<<>>, SubSeq(stored, resumeIndex + 1,
                                                      Len(stored))),
                              ResumeData(Len(stored)), lastEventId + 1, "none"),
                   byteSent |-> Len(stored) * chunkSize,
                   chunkIndex |-> Len(stored),
                   lastId |-> lastEventId + 1]
             ELSE [log |-> <<>>, byteSent |-> 0, chunkIndex |-> 0, lastId |-> 0]
    ELSE [log |-> SendEvent(<<>>, StartingData, 1, "none"),
          byteSent |-> 0, chunkIndex |-> 0, lastId |-> 1]

\* GET /sse/stream-file: get or create the array of the id, perform the
\* handshake, arm the expiration and schedule the chunk interval.
FileConnect(c, streamId, totalBytes, chunkSize, lastEventId) ==
    /\ ~fileConns[c].open
    /\ LET stored == eventStore[streamId].stored
           hs == FileHandshake(stored, lastEventId, chunkSize)
           exp == SetStoreExpiration(storeExpirations, timeouts, streamId)
       IN  /\ Cardinality(exp.timeouts) <= MaxTimeouts
           /\ eventStore' = [eventStore EXCEPT ![streamId] =
                                [has |-> TRUE, stored |-> stored]]
           /\ storeExpirations' = exp.storeExpirations
           /\ timeouts' = exp.timeouts
           /\ fileConns' = [fileConns EXCEPT ![c] =
                   [open |-> TRUE, streamId |-> streamId,
                    totalBytes |-> totalBytes, chunkSize |-> chunkSize,
                    byteSent |-> hs.byteSent, chunkIndex |-> hs.chunkIndex,
                    lastId |-> hs.lastId, running |-> TRUE, ended |-> FALSE,
                    detached |-> FALSE, log |-> hs.log]]
    /\ reply' = NoReply
    /\ UNCHANGED <<streams, states, timers, conns>>

\* if (stored.length > 500) stored.shift()
TrimStore(stored) ==
    IF Len(stored) > ChunkStoreCap THEN Tail(stored) ELSE stored

\* One firing of the chunk interval of request c: the end message once
\* byteSent has reached totalBytes, otherwise the next chunk, numbered by
\* the request's own counters, sent, pushed to stored and the expiration
\* armed anew.
FileTick(c) ==
    /\ fileConns[c].open
    /\ fileConns[c].running
    /\ LET f == fileConns[c]
       IN  IF f.byteSent >= f.totalBytes
           THEN /\ fileConns' = [fileConns EXCEPT ![c] =
                       [f EXCEPT !.lastId = f.lastId + 1,
                                 !.log = SendEvent(f.log, EndData,
                                                   f.lastId + 1, "end"),
                                 !.running = FALSE, !.ended = TRUE]]
                /\ UNCHANGED <<eventStore, storeExpirations, timeouts>>
           ELSE /\ f.lastId < MaxChunkId
                /\ LET chunkIndex == f.chunkIndex + 1
                       lastId == f.lastId + 1
                       payload == ChunkData(chunkIndex)
                       exp == SetStoreExpiration(storeExpirations, timeouts,
                                                 f.streamId)
                   IN  /\ Cardinality(exp.timeouts) <= MaxTimeouts
                       /\ fileConns' = [fileConns EXCEPT ![c] =
                              [f EXCEPT !.chunkIndex = chunkIndex,
                                        !.lastId = lastId,
                                        !.log = SendEvent(f.log, payload,
                                                          lastId, "chunk"),
                                        !.byteSent = f.byteSent +
                                            ChunkLength(f.chunkSize)]]
                       /\ eventStore' =
                              IF f.detached THEN eventStore
                              ELSE [eventStore EXCEPT ![f.streamId].stored =
                                       TrimStore(Append(@,
                                           [id |-> lastId, data |-> payload]))]
                       /\ storeExpirations' = exp.storeExpirations
                       /\ timeouts' = exp.timeouts
    /\ reply' = NoReply
    /\ UNCHANGED <<streams, states, timers, conns>>

\* req.on('close') of /sse/stream-file: stop the chunk interval, end the
\* response.
FileClose(c) ==
    /\ fileConns[c].open
    /\ fileConns' = [fileConns EXCEPT ![c] = FreeFileConn]
    /\ reply' = NoReply
    /\ UNCHANGED <<streams, states, timers, conns, eventStore, storeExpirations, timeouts>>

\* The expiration timeout t fires: the eventStore entry and the
\* storeExpirations entry of its id are deleted, whatever handle is on
\* record.  The delay itself is not modelled: a pending timeout may fire
\* at any moment.
StoreExpire(t) ==
    /\ eventStore' = [eventStore EXCEPT ![t.streamId] = NoStore]
    /\ storeExpirations' = [storeExpirations EXCEPT ![t.streamId] = 0]
    /\ timeouts' = timeouts \ {t}
    /\ fileConns' = [c \in FileConns |->
                        IF fileConns[c].open /\ fileConns[c].streamId = t.streamId
                        THEN [fileConns[c] EXCEPT !.detached = TRUE]
                        ELSE fileConns[c]]
    /\ reply' = NoReply
    /\ UNCHANGED <<streams, states, timers, conns>>

\* What the chunked variant does.
FileNext ==
    \/ \E c \in FileConns, streamId \in StreamIds,
          totalBytes \in TotalBytesChoices, chunkSize \in ChunkSizeChoices,
          lastEventId \in FileLastEventIdChoices :
          FileConnect(c, streamId, totalBytes, chunkSize, lastEventId)
    \/ \E c \in FileConns : FileTick(c)
    \/ \E c \in FileConns : FileClose(c)
    \/ \E t \in timeouts : StoreExpire(t)

\* Requests to /sse/stream-file only.
SpecFile == Init /\ [][FileNext]_vars

\* One /sse/test request at a time, with a finite maxEvents when it creates
\* the stream, and what the periodic engine does besides.
PeriodicNext ==
    \/ \E streamId \in StreamIds :
          \E requestedMax \in (IF streams[streamId] = 0
                                THEN MaxEventsChoices \ {Infinity}
                                ELSE {Infinity}) :
             Connect(1, streamId, requestedMax, 2000, "none", 0, 0)
    \/ Others

\* A periodic stream and a chunk stream under one stream id: one request
\* at a time to each endpoint, none of them resuming.
NextNamespaces ==
    \/ PeriodicNext
    \/ \E streamId \in StreamIds, totalBytes \in TotalBytesChoices,
          chunkSize \in ChunkSizeChoices :
          FileConnect(1, streamId, totalBytes, chunkSize, 0)
    \/ \E c \in FileConns : FileTick(c)
    \/ \E c \in FileConns : FileClose(c)
    \/ \E t \in timeouts : StoreExpire(t)

SpecNamespaces == Init /\ [][NextNamespaces]_vars

(* ------------------------- reading a connection ------------------------ *)

\* A written message is a substantive Event, not a control message.
IsEvent(m) == m.data.message \in {"Test event", "Simulated server error"}

\* The ids of the substantive Events written to a response, in order.
RECURSIVE EventIds(_)
EventIds(log) ==
    IF log = <<>> THEN <<>>
    ELSE IF IsEvent(Head(log)) THEN <<Head(log).id>> \o EventIds(Tail(log))
         ELSE EventIds(Tail(log))

\* The ids written to a response (messages without an id line left out).
RECURSIVE WrittenIds(_)
WrittenIds(log) ==
    IF log = <<>> THEN <<>>
    ELSE IF Head(log).id # 0 THEN <<Head(log).id>> \o WrittenIds(Tail(log))
         ELSE WrittenIds(Tail(log))

\* The last-seen id a "found" connection resumed from.
ResumedFrom(log) ==
    (CHOOSE i \in 1..Len(log) : log[i].data.message = "Resumed from ID") 

Registered(s) == \E id \in StreamIds : streams[id] = s

\* The substantive Events written to a response, in order.
RECURSIVE DeliveredEvents(_)
DeliveredEvents(log) ==
    IF log = <<>> THEN <<>>
    ELSE IF IsEvent(Head(log)) THEN <<Head(log)>> \o DeliveredEvents(Tail(log))
         ELSE DeliveredEvents(Tail(log))

\* a is b with some elements left out, the order kept.
RECURSIVE IsSubsequence(_, _)
IsSubsequence(a, b) ==
    IF a = <<>> THEN TRUE
    ELSE IF b = <<>> THEN FALSE
    ELSE IF Head(a) = Head(b) THEN IsSubsequence(Tail(a), Tail(b))
    ELSE IsSubsequence(a, Tail(b))

(* ------------------------------- claims -------------------------------- *)

\* C1: a connection that resumed from a last-seen id L found in the buffer
\* has been sent exactly the Events L+1, L+2, ... in order, without a gap,
\* and its live-follow cursor is the id of the last Event it was sent (L
\* when nothing was missed).
C1_ResumeExactlyAfterL ==
    \A c \in Conns :
        conns[c].mode = "found" =>
            LET log == conns[c].log
                L == log[ResumedFrom(log)].data.n
                ids == EventIds(log)
            IN  /\ \A i \in 1..Len(ids) : ids[i] = L + i
                /\ conns[c].lastSentId = L + Len(ids)

\* C2: a connection whose last-seen id was not in the buffer is never sent
\* an Event that was already in the buffer when it attached.
C2_NotFoundNoHistory ==
    \A c \in Conns :
        conns[c].mode = "notfound" =>
            \A i \in 1..Len(conns[c].log) :
                IsEvent(conns[c].log[i]) =>
                    conns[c].log[i].id > conns[c].attachLastId

\* C3: a connection that attached without a last-seen id is only sent
\* Events with an id greater than the stream's lastId at attach time.
C3_FreshNoHistory ==
    \A c \in Conns :
        conns[c].mode = "fresh" =>
            \A i \in 1..Len(conns[c].log) :
                IsEvent(conns[c].log[i]) =>
                    conns[c].log[i].id > conns[c].attachLastId

\* C4: a connection that attached without a last-seen id before the first
\* Event and was ended by the server has been sent the "connected" message
\* and then every Event of the stream, ids 1..N in order.
C4_AllDeliveredBeforeEnd ==
    \A c \in Conns :
        (conns[c].ended /\ conns[c].mode = "fresh"
                        /\ conns[c].attachLastId = 0) =>
            /\ Head(conns[c].log).data = ConnectedData
            /\ EventIds(conns[c].log) =
                  [i \in 1..states[conns[c].st].lastId |-> i]

\* C5: the ids written to one connection are strictly increasing.
C5_WrittenIdsIncrease ==
    \A c \in Conns :
        LET ids == WrittenIds(conns[c].log)
        IN  \A i, j \in 1..Len(ids) : i < j => ids[i] < ids[j]

\* C5 witness: one resumed connection was sent a replayed Event and then
\* the "resumed" message, another the "resumed" message and then a
\* live-followed Event.
C5_Witness ==
    /\ \E c \in Conns :
          /\ conns[c].mode = "found"
          /\ ResumedFrom(conns[c].log) > 1
    /\ \E d \in Conns :
          /\ conns[d].mode = "found"
          /\ ResumedFrom(conns[d].log) < Len(conns[d].log)

\* eventCount never exceeds maxEvents.
C6_CountWithinMax ==
    \A s \in Slots : Registered(s) => states[s].eventCount <= states[s].maxEvents

\* The tick that finds the stream finished removes interval and entry.
C6_TerminalTick ==
    \A t \in timers :
        (Finished(states[t.st]) /\ GeneratorTick(t)) =>
            /\ streams'[t.streamId] = 0
            /\ \A u \in timers' : u.st # t.st

\* A stream with a finite maxEvents whose generator injects no error.
C6_RunsToTheEnd(id) ==
    /\ streams[id] # 0
    /\ states[streams[id]].maxEvents # Infinity
    /\ \E t \in timers : t.st = streams[id] /\ t.errorAfterNum = 0

C7_OneGenerator ==
    /\ \A id \in StreamIds : Cardinality({t \in timers : t.streamId = id}) <= 1
    /\ \A s \in Slots : Cardinality({t \in timers : t.st = s}) <= 1
    /\ \A t \in timers : states[t.st].timer = t.h

\* C7 witness: two connections attached to one registered stream with one
\* generator running.
C7_Witness ==
    /\ \A c \in Conns : conns[c].live /\ Registered(conns[c].st)
    /\ \A c, d \in Conns : conns[c].st = conns[d].st
    /\ Cardinality(timers) = 1

\* C8: the replay buffer never holds more than its capacity.
C8_BufferWithinCapacity ==
    \A s \in Slots : Len(states[s].events) <= HistoryCap

\* A state that stays registered keeps its maxEvents and intervalMs.
C9_Unchanged ==
    \A id \in StreamIds :
        (streams[id] # 0 /\ streams'[id] = streams[id]) =>
            /\ states'[streams[id]].maxEvents = states[streams[id]].maxEvents
            /\ states'[streams[id]].intervalMs = states[streams[id]].intervalMs

\* The interval runs at the locked period, the count stays within the
\* locked limit, and a warned request is attached like any other.
C9_Obeyed ==
    /\ \A t \in timers : t.period = states[t.st].intervalMs
    /\ \A s \in Slots :
          Registered(s) => states[s].eventCount <= states[s].maxEvents
    /\ \A c \in Conns : conns[c].warned => conns[c].live /\ conns[c].st # 0

\* C9: while a state stays registered its maxEvents and intervalMs do not
\* change, whatever later requests ask for; a request asking for another
\* maxEvents is attached all the same; and the generator runs at the locked
\* interval and within the locked limit.
C9_LockedParams == []C9_Obeyed /\ [][C9_Unchanged]_vars

\* C9 witness: a request that asked for maxEvents = 2 is attached to a
\* registered stream locked at Infinity.
C9_Witness ==
    \E c \in Conns :
        /\ conns[c].warned
        /\ Registered(conns[c].st)
        /\ states[conns[c].st].maxEvents = Infinity
        /\ states[conns[c].st].timer # 0

\* What a disconnect of c leaves as it was.
C10_Frame ==
    \A c \in Conns :
        Disconnect(c) =>
            /\ streams' = streams
            /\ \A s \in Slots :
                  Registered(s) =>
                      [states'[s] EXCEPT !.idle = 0] = [states[s] EXCEPT !.idle = 0]
            /\ {[t EXCEPT !.res = NoRes] : t \in timers'} =
                  {[t EXCEPT !.res = NoRes] : t \in timers}
            /\ \A d \in Conns \ {c} :
                  /\ conns'[d] = conns[d]
                  /\ conns[d].st # 0 =>
                        /\ states'[conns[d].st].events = states[conns[d].st].events
                        /\ states'[conns[d].st].lastId = states[conns[d].st].lastId

\* With no connection attached a scheduled generator can still fire.
C10_RunsUnwatched ==
    (\A c \in Conns : conns[c].st = 0) =>
        \A t \in timers :
            (~Finished(states[t.st]) /\ states[t.st].lastId < MaxId) =>
                ENABLED GeneratorTick(t)

\* C10: a disconnect leaves the registry, every field of a registered
\* state but lastActivity, the scheduled generators, and every other
\* connection with the buffer it reads unchanged; and a scheduled generator
\* of an unfinished stream can fire with no connection attached.
C10_DisconnectOnlyStopsTail == []C10_RunsUnwatched /\ [][C10_Frame]_vars

\* C10 witness: every request is closed, the one that started the
\* generator included, and the generator is still scheduled on the
\* registered stream.
C10_Witness ==
    /\ \A c \in Conns : conns[c].st = 0
    /\ \E t \in timers :
          /\ t.res = NoRes
          /\ Registered(t.st)
          /\ states[t.st].timer = t.h
          /\ states[t.st].lastId > 0

\* The delete of a registered id leaves the id absent and no generator
\* scheduled for it or for the state it held.
C11_DeleteStep ==
    \A id \in StreamIds :
        (streams[id] # 0 /\ AdminDelete(id)) =>
            /\ streams'[id] = 0
            /\ \A t \in timers' : t.st # streams[id] /\ t.streamId # id

\* Every scheduled generator runs on the state registered under its id.
C11_NoOrphanGenerator == \A t \in timers : streams[t.streamId] = t.st

\* The buffer and lastId of a state that is out of the registry and still
\* held by a connection do not change.
C11_OrphanFrozen ==
    \A c \in Conns :
        (conns[c].st # 0 /\ ~Registered(conns[c].st) /\ conns'[c].st = conns[c].st) =>
            /\ states'[conns[c].st].events = states[conns[c].st].events
            /\ states'[conns[c].st].lastId = states[conns[c].st].lastId

\* An absent id enters the registry only by a request that attaches to the
\* newly created, empty state.
C11_AbsentUntilConnect ==
    \A id \in StreamIds :
        (streams[id] = 0 /\ streams'[id] # 0) =>
            /\ \E c \in Conns : conns[c].st = 0 /\ conns'[c].st = streams'[id]
            /\ states'[streams'[id]].events = <<>>

\* C11: the administrative delete of a registered stream cancels its
\* generator and removes its state from the registry in one step, with or
\* without connections attached; no generator is ever scheduled on a state
\* that is out of the registry, so the buffer and lastId of a deleted state
\* never change again; and the id stays absent until a connect creates a
\* new state.
C11_DeleteCancelsAndRemoves ==
    /\ []C11_NoOrphanGenerator
    /\ [][C11_DeleteStep /\ C11_OrphanFrozen /\ C11_AbsentUntilConnect]_vars

\* C11 witness: the delete just answered for a stream with Events in its
\* buffer, a connection is still attached to the deleted state and no
\* generator is left.
C11_Witness ==
    /\ reply.status = 200
    /\ reply.lastId > 0
    /\ streams["default"] = 0
    /\ timers = {}
    /\ \E c \in Conns : conns[c].st # 0 /\ states[conns[c].st].lastId = reply.lastId

\* C12: a connection left attached to a state that a delete has just taken
\* out of the registry does not stay open for ever: its response is ended
\* or its request closed.
C12_DeletedTailsTerminated ==
    \A c \in Conns :
        (reply.status = 200 /\ conns[c].st # 0 /\ ~Registered(conns[c].st) /\ ~conns[c].ended)
            ~> (conns[c].ended \/ conns[c].st = 0)

\* One run of the sweeper removes exactly the registered states idle for
\* longer than the threshold and leaves no generator scheduled on them.
C13_SweepStep ==
    Cleanup =>
        \A id \in StreamIds :
            IF streams[id] # 0 /\ Expired(states[streams[id]])
            THEN /\ streams'[id] = 0
                 /\ \A t \in timers' : t.st # streams[id] /\ t.streamId # id
            ELSE streams'[id] = streams[id]

\* A request for the id is opened or closed.
C13_Activity(id) ==
    \E c \in Conns :
        /\ conns'[c].st # conns[c].st
        /\ conns[c].streamId = id \/ conns'[c].streamId = id

\* C13: the sweeper removes a state idle for longer than the threshold and
\* stops its generator; and unless requests for an id keep being opened or
\* closed for ever, the id eventually is out of the registry for good,
\* whether or not a generator runs or connections stay attached.
C13_IdleReclaimed ==
    /\ [][C13_SweepStep]_vars
    /\ \A id \in StreamIds :
          []<><<C13_Activity(id)>>_vars \/ <>[](streams[id] = 0)

\* C13 witness: a registered stream idle for longer than the threshold with
\* its generator still scheduled, Events in its buffer and a connection
\* attached: the sweeper is due.
C13_Witness ==
    \E id \in StreamIds :
        /\ streams[id] # 0
        /\ Expired(states[streams[id]])
        /\ states[streams[id]].timer # 0
        /\ states[streams[id]].lastId > 0
        /\ \E c \in Conns : conns[c].st = streams[id] /\ ~conns[c].ended
        /\ ENABLED Cleanup

\* What the connect that creates the state of an absent id leaves: a new
\* object nobody else holds, empty and numbered from 0, locked to the
\* values of this request; the request is attached to it, has been sent no
\* Event, and a last-seen id it supplied was not found.
C14_CreatedFresh(id) ==
    \A c \in Conns, requestedMax \in MaxEventsChoices, intervalMs \in IntervalChoices,
       eventType \in EventTypeChoices, errorAfterNum \in ErrorAfterChoices,
       lastEventId \in LastEventIdChoices :
        Connect(c, id, requestedMax, intervalMs, eventType, errorAfterNum, lastEventId) =>
            LET state == states'[streams'[id]]
            IN  /\ state.events = <<>>
                /\ state.lastId = 0
                /\ state.eventCount = 0
                /\ state.maxEvents = requestedMax
                /\ state.intervalMs = intervalMs
                /\ \A d \in Conns : conns[d].st # streams'[id]
                /\ conns'[c].st = streams'[id]
                /\ EventIds(conns'[c].log) = <<>>
                /\ conns'[c].mode = IF lastEventId = 0 THEN "fresh" ELSE "notfound"

\* An absent id enters the registry by such a connect and in no other way.
C14_Recreate ==
    \A id \in StreamIds :
        (streams[id] = 0 /\ streams'[id] # 0) =>
            /\ \E c \in Conns : conns[c].st = 0 /\ conns'[c].st # 0
            /\ C14_CreatedFresh(id)

\* What a tail writes comes from the buffer of the state its request is
\* attached to.
C14_TailReadsOwnState ==
    \A c \in Conns :
        LiveTail(c) =>
            \A i \in (Len(conns[c].log) + 1)..Len(conns'[c].log) :
                \E j \in 1..Len(states[conns[c].st].events) :
                    /\ states[conns[c].st].events[j].id = conns'[c].log[i].id
                    /\ states[conns[c].st].events[j].data = conns'[c].log[i].data

\* Every Event a request was sent carries an id its own state has assigned.
C14_OwnEventsOnly ==
    \A c \in Conns :
        conns[c].st # 0 =>
            \A i \in 1..Len(conns[c].log) :
                IsEvent(conns[c].log[i]) =>
                    conns[c].log[i].id \in 1..states[conns[c].st].lastId

\* C14: once an id is out of the registry, by whatever path, the next
\* connect for it creates a new empty state with lastId = 0 and
\* eventCount = 0 locked to that request's maxEvents and interval; a
\* last-seen id sent with it is not found; the request is sent only Events
\* of the new state, numbered from 1.
C14_FreshAfterRemoval ==
    /\ []C14_OwnEventsOnly
    /\ [][C14_Recreate /\ C14_TailReadsOwnState]_vars

\* C14 witness: one request still holds a removed state with two Events;
\* another, which sent a last-seen id, is attached to the state created
\* after the removal and has been sent that state's Event 1 and nothing
\* else.
C14_Witness ==
    \E c, d \in Conns :
        /\ conns[c].st # 0
        /\ ~Registered(conns[c].st)
        /\ states[conns[c].st].lastId = 2
        /\ conns[d].st # 0
        /\ Registered(conns[d].st)
        /\ conns[d].mode = "notfound"
        /\ states[conns[d].st].lastId = 1
        /\ EventIds(conns[d].log) = <<1>>

\* What the delete of id is to answer, given the state it finds.
C15_Report(id) ==
    IF streams[id] = 0
    THEN /\ reply' = NotFoundReply
         /\ UNCHANGED <<streams, states, timers, conns>>
    ELSE /\ reply'.status = 200
         /\ reply'.wasActive = (\E t \in timers : t.st = streams[id])
         /\ reply'.eventCount = states[streams[id]].eventCount
         /\ reply'.lastId = states[streams[id]].lastId

\* C15: the delete of a registered id answers wasActive = true exactly when
\* a generator was scheduled for the stream when the request arrived, with
\* the stream's eventCount and lastId; the delete of an absent id answers
\* not-found and changes nothing.
C15_DeleteReport ==
    [][\A id \in StreamIds : AdminDelete(id) => C15_Report(id)]_vars

\* Two requests attached to one state were sent the same Event under an id
\* both were sent.
C16_SameEventPerId ==
    \A c, d \in Conns :
        (conns[c].st # 0 /\ conns[c].st = conns[d].st) =>
            \A i \in 1..Len(conns[c].log), j \in 1..Len(conns[d].log) :
                (IsEvent(conns[c].log[i]) /\ IsEvent(conns[d].log[j])
                    /\ conns[c].log[i].id = conns[d].log[j].id) =>
                    conns[c].log[i] = conns[d].log[j]

\* The Events a request was sent are, in order, Events the generator
\* appended to the state it is attached to.
C16_Subsequence ==
    \A c \in Conns :
        conns[c].st # 0 =>
            IsSubsequence(DeliveredEvents(conns[c].log), states[conns[c].st].appended)

\* A connect to a stream whose generator is scheduled has the same effect
\* whatever eventType it asks for.
C16_TypeNotPerRequest ==
    \A id \in StreamIds :
        (streams[id] # 0 /\ states[streams[id]].timer # 0) =>
            \A c \in Conns, requestedMax \in MaxEventsChoices, intervalMs \in IntervalChoices :
                (\E eventType \in EventTypeChoices : Connect(c, id, requestedMax, intervalMs, eventType, 0, 0))
                    => \A eventType \in EventTypeChoices : Connect(c, id, requestedMax, intervalMs, eventType, 0, 0)

\* C16: the requests attached to one state are sent Events of one
\* sequence: under an id both were sent, the type and payload are the
\* same, and what each was sent is an order-preserving subsequence of
\* what the generator appended, whatever eventType the request asked for.
C16_OneUnderlyingSequence ==
    /\ [](C16_SameEventPerId /\ C16_Subsequence)
    /\ [][C16_TypeNotPerRequest]_vars

\* C16 witness: the generator types its Events "update"; one request was
\* sent Events 1, 2, 3, another attached to the same state Events 2, 3.
C16_Witness ==
    \E c, d \in Conns :
        /\ conns[c].st # 0
        /\ conns[c].st = conns[d].st
        /\ EventIds(conns[c].log) = <<1, 2, 3>>
        /\ EventIds(conns[d].log) = <<2, 3>>
        /\ \A i \in 1..3 : states[conns[c].st].appended[i].event = "update"

\* The Events ever appended to a state carry the ids 1, 2, ..., lastId in
\* the order they were appended.
C17_AssignedIds(state) ==
    /\ Len(state.appended) = state.lastId
    /\ \A i \in 1..Len(state.appended) : state.appended[i].id = i

\* The buffer holds the newest of them in that order: its ids increase
\* from head to tail and the tail carries lastId.
C17_BufferIds(state) ==
    /\ \A i, j \in 1..Len(state.events) : i < j => state.events[i].id < state.events[j].id
    /\ state.events # <<>> => state.events[Len(state.events)].id = state.lastId
    /\ state.events = <<>> => state.lastId = 0
    /\ IsSubsequence(state.events, state.appended)

\* C17: in every reachable state, the Events appended to a state so far,
\* test and error Events alike, carry the ids 1..lastId in append order
\* (integers from 1, strictly increasing, none used twice); the ids in the
\* buffer increase strictly from head to tail and the tail id is lastId.
C17_IdsIncreaseNeverReused ==
    \A s \in Slots : C17_AssignedIds(states[s]) /\ C17_BufferIds(states[s])

\* C17 witness: one state whose buffer has evicted Event 1 and holds 2, 3,
\* and another whose third Event is an error Event.
C17_Witness ==
    \E s, r \in Slots :
        /\ states[s].lastId = 3
        /\ Head(states[s].events).id = 2
        /\ states[r].lastId = 3
        /\ states[r].events[Len(states[r].events)].event = "error"

\* C18: the generator tick that finds eventCount >= maxEvents leaves no
\* generator scheduled on the state, the id out of the registry and the
\* response of every request attached to the state ended, whichever
\* request started the generator and whether or not it is still open.
C18_TerminalTickClosesAll ==
    [][\A t \in timers :
          (Finished(states[t.st]) /\ GeneratorTick(t)) =>
              /\ \A u \in timers' : u.st # t.st
              /\ streams'[t.streamId] = 0
              /\ \A c \in Conns : conns[c].st = t.st => conns'[c].ended]_vars

\* The last Event appended to the state is an injected error: the error
\* branch of its generator has run and nothing was appended since.
C19_Halted(state) ==
    /\ state.appended # <<>>
    /\ state.appended[Len(state.appended)].event = "error"

\* C19: a registered state whose generator was halted by an injected error
\* has no generator scheduled and, while it stays registered, keeps its
\* lastId and eventCount, whatever requests attach to it.
C19_HaltedStaysHalted ==
    [][\A id \in StreamIds :
          (streams[id] # 0 /\ C19_Halted(states[streams[id]]) /\ streams'[id] = streams[id]) =>
              /\ states'[streams[id]].timer = 0
              /\ \A t \in timers' : t.st # streams[id]
              /\ states'[streams[id]].lastId = states[streams[id]].lastId
              /\ states'[streams[id]].eventCount = states[streams[id]].eventCount]_vars

\* A request attaches: the state it attaches to has just been touched.
C20_TouchedByConnect ==
    \A c \in Conns :
        (conns[c].st = 0 /\ conns'[c].st # 0) => states'[conns'[c].st].idle = 0

\* A generator tick appends an Event: its state has just been touched.
C20_TouchedByGenerator ==
    \A t \in timers :
        (~Finished(states[t.st]) /\ GeneratorTick(t)) => states'[t.st].idle = 0

\* C20: after every connect or reconnect to a state and after every
\* generator tick that appends an Event to it, the state's lastActivity is
\* the time of that step (no time has passed since).
C20_LastActivityUpdated ==
    [][C20_TouchedByConnect /\ C20_TouchedByGenerator]_vars

\* The tick of generator t is the one on which the error is injected.
C21_ErrorDue(t) ==
    /\ ~Finished(states[t.st])
    /\ t.errorAfterNum > 0
    /\ states[t.st].eventCount + 1 = t.errorAfterNum

\* What that tick does: the generator is off, the registry is as it was,
\* and the buffer is the earlier buffer with one error Event appended that
\* carries the tick's id; nothing else was appended.
C21_ErrorTick ==
    \A t \in timers :
        (C21_ErrorDue(t) /\ GeneratorTick(t)) =>
            LET before == states[t.st]
                after == states'[t.st]
                errorEvent == [id |-> before.lastId + 1, data |-> ErrorData, event |-> "error"]
            IN  /\ after.timer = 0
                /\ \A u \in timers' : u.st # t.st
                /\ streams' = streams
                /\ streams[t.streamId] = t.st
                /\ after.lastId = before.lastId + 1
                /\ after.events = Append(before.events, errorEvent)
                /\ after.appended = Append(before.appended, errorEvent)

\* A request that was attached when the error Event was appended, and whose
\* response is open, has been sent the error Event or its tail is still
\* to send it.
C21_ErrorReachesTails ==
    \A c \in Conns :
        (/\ conns[c].st # 0
         /\ ~conns[c].ended
         /\ C19_Halted(states[conns[c].st])
         /\ conns[c].attachLastId < states[conns[c].st].lastId) =>
            \/ \E i \in 1..Len(conns[c].log) :
                  /\ conns[c].log[i].event = "error"
                  /\ conns[c].log[i].id = states[conns[c].st].lastId
            \/ ENABLED LiveTail(c)

\* C21: the tick on which the error threshold is reached stops the
\* generator, leaves the state registered with its earlier buffer intact
\* and appends exactly one Event, an error Event with that tick's id; and
\* every request attached at that tick is sent that error Event by its
\* tail.
C21_ErrorInjected == []C21_ErrorReachesTails /\ [][C21_ErrorTick]_vars

\* What the handshake of a request with the last-seen id L is to write,
\* given the chunks stored for the id: the stored chunks with an id above L
\* in order and then one resume message if L is stored, and one not-found
\* message and no chunk if it is not.
C22_Resumed(stored, L, log) ==
    IF \E i \in 1..Len(stored) : stored[i].id = L
    THEN LET missed == NewEvents(stored, L)
         IN  /\ Len(log) = Len(missed) + 1
             /\ \A i \in 1..Len(missed) :
                   log[i].id = missed[i].id /\ log[i].data = missed[i].data
             /\ log[Len(log)].data.message = ResumeData(0).message
    ELSE /\ Len(log) = 1
         /\ log[1].data.message \notin {ChunkData(0).message, ResumeData(0).message}

\* C22: the handshake of /sse/stream-file with a last-seen id L replays
\* exactly the stored chunks with id > L in order, not chunk L itself,
\* wherever L is in the store, the first position included, and then
\* writes a resume message; with an L that is not stored it writes a
\* not-found message and replays nothing.
C22_FileResumption ==
    [][\A c \in FileConns, streamId \in StreamIds, totalBytes \in TotalBytesChoices,
          chunkSize \in ChunkSizeChoices, L \in FileLastEventIdChoices \ {0} :
          FileConnect(c, streamId, totalBytes, chunkSize, L) =>
              C22_Resumed(eventStore[streamId].stored, L, fileConns'[c].log)]_vars

\* The chunk ids in the store of every id increase strictly in store
\* order, so none is held by two stored chunks.
C23_StoreIdsIncrease ==
    \A id \in StreamIds :
        LET stored == eventStore[id].stored
        IN  \A i, j \in 1..Len(stored) : i < j => stored[i].id < stored[j].id

\* The ids written to one /sse/stream-file response increase strictly.
C23_WrittenIdsIncrease ==
    \A c \in FileConns :
        LET ids == WrittenIds(fileConns[c].log)
        IN  \A i, j \in 1..Len(ids) : i < j => ids[i] < ids[j]

\* C23: whatever /sse/stream-file requests, fresh or resuming, at once or
\* one after another, use one stream id, the chunk ids in the id's store
\* increase strictly in store order, no id is given to two stored chunks,
\* and the ids written to any one response increase strictly.
C23_ChunkIdsIncrease == C23_StoreIdsIncrease /\ C23_WrittenIdsIncrease

\* A step of the periodic engine leaves the chunk store, the expiration
\* bookkeeping, the pending timeouts and the chunk requests as they were.
C24_Frame == PeriodicNext => UNCHANGED fileVars

\* Every pending expiration timeout is the one on record for its id.
C24_PendingRecorded ==
    \A t \in timeouts : storeExpirations[t.streamId] = t.h

\* At most one expiration timeout is pending per stream id.
C24_OnePending ==
    \A id \in StreamIds : Cardinality({t \in timeouts : t.streamId = id}) <= 1

\* A chunk was emitted: a timeout armed by this step is on record.
C24_Rearmed ==
    \A c \in FileConns :
        (FileTick(c) /\ fileConns'[c].chunkIndex # fileConns[c].chunkIndex) =>
            \E t \in timeouts' : storeExpirations'[fileConns[c].streamId] = t.h

\* C24: no step of the periodic engine (connect, generator tick, terminal
\* tick, sweep, delete) changes the chunk store or the expiration
\* bookkeeping of the chunk stream with the same id; every pending
\* expiration timeout is on record, there is at most one per id, and each
\* emitted chunk arms it anew.
C24_SeparateNamespaces ==
    /\ [](C24_PendingRecorded /\ C24_OnePending)
    /\ [][C24_Frame /\ C24_Rearmed]_vars

\* C25: a run of the sweeper does not remove a registered state while its
\* generator is scheduled and a request with an open response is attached
\* to it.
C25_NotSweptWhileWatched ==
    [][Cleanup =>
          \A id \in StreamIds :
              (/\ streams[id] # 0
               /\ states[streams[id]].timer # 0
               /\ \E c \in Conns : conns[c].st = streams[id] /\ ~conns[c].ended) =>
                  streams'[id] = streams[id]]_vars

\* Every scheduled generator is the one its state holds in state.timer, and
\* that state is the one the registry holds under the generator's id.
C26_GeneratorOfRegistered ==
    \A t \in timers :
        /\ streams[t.streamId] = t.st
        /\ states[t.st].timer = t.h

\* A step that takes a state out of the registry (terminal tick, sweep or
\* delete) leaves no generator scheduled on that state.
C26_RemovalCancels ==
    \A id \in StreamIds :
        (streams[id] # 0 /\ streams'[id] # streams[id]) =>
            /\ streams'[id] = 0
            /\ \A t \in timers' : t.st # streams[id]
            /\ (\A t \in timers : t.st = streams[id] => t \notin timers')

\* A generator tick changes no state but the registered one it runs on and
\* no registry entry but that state's own.
C26_TickOnRegistered ==
    \A t \in timers :
        GeneratorTick(t) =>
            /\ streams[t.streamId] = t.st
            /\ \A s \in Slots \ {t.st} : states'[s] = states[s]
            /\ \A id \in StreamIds \ {t.streamId} : streams'[id] = streams[id]

\* C26: there is never an orphan generator: a scheduled generator always
\* belongs to the state registered under its id; each removal of a state
\* from the registry cancels its generator in the same step; and a tick
\* appends to, or deletes the entry of, the registered state only.
C26_NoOrphanGeneratorEver ==
    /\ []C26_GeneratorOfRegistered
    /\ [][C26_RemovalCancels /\ C26_TickOnRegistered]_vars

\* C26 witness: a state removed from the registry is still held by a
\* connection and keeps the Events it had, while a newer state registered
\* under the same id has its own generator, which has appended.
C26_Witness ==
    \E c \in Conns :
        /\ conns[c].st # 0
        /\ ~Registered(conns[c].st)
        /\ states[conns[c].st].lastId > 0
        /\ \E t \in timers :
              /\ t.streamId = conns[c].streamId
              /\ t.st # conns[c].st
              /\ states[t.st].lastId > 0

\* The handshake of a request that attaches to a registered state leaves
\* that state's lastId, eventCount and buffer as they were.
C27_HandshakeFrame ==
    \A c \in Conns :
        (conns[c].st = 0 /\ conns'[c].st # 0 /\ streams[conns'[c].streamId] # 0) =>
            /\ conns'[c].st = streams[conns'[c].streamId]
            /\ states'[conns'[c].st].lastId = states[conns'[c].st].lastId
            /\ states'[conns'[c].st].eventCount = states[conns'[c].st].eventCount
            /\ states'[conns'[c].st].events = states[conns'[c].st].events

\* No control message written to a response carries the id of an Event its
\* state has appended, before or after the message was written.
C27_NoSharedId ==
    \A c \in Conns :
        conns[c].st # 0 =>
            \A i \in 1..Len(conns[c].log) :
                (~IsEvent(conns[c].log[i]) /\ conns[c].log[i].id # 0) =>
                    \A j \in 1..Len(states[conns[c].st].appended) :
                        states[conns[c].st].appended[j].id # conns[c].log[i].id

\* C27: the control messages of the periodic stream neither consume nor
\* collide with Event ids: the handshake leaves lastId, eventCount and the
\* buffer unchanged, and no control message has an id that is, or later
\* becomes, the id of an Event of the same state.
C27_ControlIdsApart ==
    /\ []C27_NoSharedId
    /\ [][C27_HandshakeFrame]_vars

====
